---- MODULE Spec2Model ----
(***************************************************************************)
(* The poll server of solve-social/areyougoing: the store Db behind one    *)
(* Mutex (server/src/main.rs), its handlers submit, new_poll, get_poll and *)
(* get_progress, the snapshot file data.ron, and the engine of             *)
(* shared/src/lib.rs (calculate_progress, evaluate, from_result).          *)
(***************************************************************************)
EXTENDS Integers, Sequences, FiniteSets, TLC

\* ------------------------------------------------------------------ bounds
\* Request handlers that may be inside the server at once.
NumHandlers == 2
\* No poll is created once the store holds this many keys.
MaxPolls == 2
\* Requests name poll keys 0..MaxKey.
MaxKey == 2

Handlers == 1..NumHandlers
KeyInputs == 0..MaxKey
Users == {"alice", "bob"}

\* ------------------------------------------------------------ shared types
\* Option<T>: None is the empty sequence, Some(x) the one-element sequence.
None == << >>
Some(x) == <<x>>

\* enum Choice { Index(u8), YesOrNo(bool) }
Index(i) == [kind |-> "Index", val |-> i]
YesOrNo(b) == [kind |-> "YesOrNo", val |-> IF b THEN 1 ELSE 0]

\* enum FormResponse: the variant and the choices it carries.
ChooseOneOrNone(opt) == [tag |-> "ChooseOneOrNone", choices |-> opt]
ChooseOne(c) == [tag |-> "ChooseOne", choices |-> <<c>>]
ChooseMultiple(cs) == [tag |-> "ChooseMultiple", choices |-> cs]
RankedChoice(cs) == [tag |-> "RankedChoice", choices |-> cs]

\* enum Form: the variant and the number of options it carries.
Form(kind, n) == [kind |-> kind, options |-> n]

\* struct Question (the prompt is text no operation reads).
Question(form) == [form |-> form]

\* Metric::SpecificResponses inside a MetricTracker.
MetricTracker(qi, c, vis) ==
    [metric |-> [question_index |-> qi, choice |-> c], publicly_visible |-> vis]

\* Requirement::AtLeast
AtLeast(mi, min) == [metric_index |-> mi, minimum |-> min]

\* struct PollResult (desc is text no operation reads).
PollResult(reqs) == [requirements |-> reqs]

\* enum Progress { Count(u64) }
Count(n) == [kind |-> "Count", val |-> n]

\* struct Poll (title, description, expiration and announcement are carried
\* through unread and left out).
Poll(qs, ts, rs, st) ==
    [questions |-> qs, metric_trackers |-> ts, results |-> rs, status |-> st]

\* struct PollData
PollData(poll, responses, progresses, result_states) ==
    [poll |-> poll, responses |-> responses, progresses |-> progresses,
     result_states |-> result_states]

\* -------------------------------------------------------------- sequences
\* The sum of f over the set S of arguments.
RECURSIVE SetSum(_, _)
SetSum(f, S) ==
    IF S = {} THEN 0
    ELSE LET x == CHOOSE y \in S : TRUE IN f[x] + SetSum(f, S \ {x})

\* A map insert that keeps the entry a key already has.
InsertIfAbsent(m, k, v) ==
    [x \in (DOMAIN m) \cup {k} |-> IF x \in DOMAIN m THEN m[x] ELSE v]

\* A map insert that empties the map first.
InsertAlone(m, k, v) == [x \in {k} |-> v]

\* HashMap::insert
Insert(m, k, v) == [x \in (DOMAIN m) \cup {k} |-> IF x = k THEN v ELSE m[x]]

\* ----------------------------------------------------------------- engine
\* A count in which a RankedChoice answer counts at any rank.
ResponseCountAnyRank(response, metric_choice) ==
    CASE response.tag = "ChooseOneOrNone" ->
            IF response.choices # None /\ response.choices[1] = metric_choice
            THEN 1 ELSE 0
      [] response.tag = "ChooseOne" ->
            IF response.choices[1] = metric_choice THEN 1 ELSE 0
      [] response.tag = "ChooseMultiple" ->
            Cardinality({i \in 1..Len(response.choices) :
                            response.choices[i] = metric_choice})
      [] response.tag = "RankedChoice" ->
            IF \E i \in 1..Len(response.choices) :
                  response.choices[i] = metric_choice
            THEN 1 ELSE 0

\* What one respondent's answer adds to the count in calculate_progress.
\* A ChooseMultiple answer adds one per element equal to the metric's choice.
ResponseCount(response, metric_choice) ==
    CASE response.tag = "ChooseOneOrNone" ->
            IF response.choices # None /\ response.choices[1] = metric_choice
            THEN 1 ELSE 0
      [] response.tag = "ChooseOne" ->
            IF response.choices[1] = metric_choice THEN 1 ELSE 0
      [] response.tag = "ChooseMultiple" ->
            Cardinality({i \in 1..Len(response.choices) :
                            response.choices[i] = metric_choice})
      [] response.tag = "RankedChoice" ->
            IF response.choices[1] = metric_choice THEN 1 ELSE 0

\* The two unwrap() calls of calculate_progress: the answer vector has no
\* entry at question_index, or a RankedChoice answer is empty.
calculate_progress_panics(metric, responses) ==
    \E u \in DOMAIN responses :
        \/ metric.question_index >= Len(responses[u])
        \/ LET r == responses[u][metric.question_index + 1] IN
             r.tag = "RankedChoice" /\ r.choices = << >>

\* Metric::calculate_progress, where it does not panic.
calculate_progress(metric, responses) ==
    LET added == [u \in DOMAIN responses |->
                    ResponseCount(responses[u][metric.question_index + 1],
                                  metric.choice)]
    IN Count(SetSum(added, DOMAIN responses))

\* The unwrap() of evaluate: progresses has no entry at metric_index.
evaluate_panics(req, progresses) == req.metric_index >= Len(progresses)

\* Requirement::evaluate, where it does not panic.
evaluate(req, progresses) ==
    progresses[req.metric_index + 1].val >= req.minimum

\* Iterator::all
All(bs) == \A i \in 1..Len(bs) : bs[i]

\* struct ResultState
ResultState(requirements_met, overall_met) ==
    [requirements_met |-> requirements_met, overall_met |-> overall_met]

\* A from_result whose overall_met is the AND of its requirements_met.
from_result_vacuous(result) ==
    ResultState([i \in 1..Len(result.requirements) |-> FALSE],
                Len(result.requirements) = 0)

\* ResultState::from_result
from_result(result) ==
    ResultState([i \in 1..Len(result.requirements) |-> FALSE], FALSE)

\* Progresses kept incrementally: the new count added to the stored one.
NewProgressesIncremental(pd) ==
    [i \in 1..Len(pd.poll.metric_trackers) |->
        Count((IF i <= Len(pd.progresses) THEN pd.progresses[i].val ELSE 0)
              + calculate_progress(pd.poll.metric_trackers[i].metric,
                                   pd.responses).val)]

\* The progresses update_results computes.
NewProgresses(pd) ==
    [i \in 1..Len(pd.poll.metric_trackers) |->
        calculate_progress(pd.poll.metric_trackers[i].metric, pd.responses)]

\* The result_states update_results computes from progresses.
NewResultStates(poll, progresses) ==
    [i \in 1..Len(poll.results) |->
        LET requirements_met ==
                [j \in 1..Len(poll.results[i].requirements) |->
                    evaluate(poll.results[i].requirements[j], progresses)]
        IN ResultState(requirements_met, All(requirements_met))]

ProgressesPanic(pd) ==
    \E i \in 1..Len(pd.poll.metric_trackers) :
        calculate_progress_panics(pd.poll.metric_trackers[i].metric, pd.responses)

ResultStatesPanic(poll, progresses) ==
    \E i \in 1..Len(poll.results) :
        \E j \in 1..Len(poll.results[i].requirements) :
            evaluate_panics(poll.results[i].requirements[j], progresses)

\* An update_results that closes the poll once one of its results is met.
update_results_closing(pd) ==
    IF ProgressesPanic(pd)
    THEN [panicked |-> TRUE, data |-> pd]
    ELSE LET pd1 == [pd EXCEPT !.progresses = NewProgresses(pd)] IN
         IF ResultStatesPanic(pd1.poll, pd1.progresses)
         THEN [panicked |-> TRUE, data |-> pd1]
         ELSE LET states == NewResultStates(pd1.poll, pd1.progresses) IN
              [panicked |-> FALSE,
               data |-> [pd1 EXCEPT
                           !.result_states = states,
                           !.poll.status =
                               IF \E i \in 1..Len(states) : states[i].overall_met
                               THEN "Closed" ELSE @]]

\* PollData::update_results: progresses is assigned first, then result_states;
\* a panic leaves what was not yet assigned as it was.
update_results(pd) ==
    IF ProgressesPanic(pd)
    THEN [panicked |-> TRUE, data |-> pd]
    ELSE LET pd1 == [pd EXCEPT !.progresses = NewProgresses(pd)] IN
         IF ResultStatesPanic(pd1.poll, pd1.progresses)
         THEN [panicked |-> TRUE, data |-> pd1]
         ELSE [panicked |-> FALSE,
               data |-> [pd1 EXCEPT !.result_states =
                            NewResultStates(pd1.poll, pd1.progresses)]]

\* ------------------------------------------------------------ persistence
\* The snapshot file data.ron: absent, unparseable, or the text of a store.
NoFile == [state |-> "absent", entries |-> {}]
CorruptFile == [state |-> "corrupt", entries |-> {}]

\* Extensions::all() holds implicit_some: an Option is written as its bare
\* value, or as the word None.
NoneToken == [kind |-> "None", val |-> 0]

SerializeResponse(response) ==
    IF response.tag = "ChooseOneOrNone"
    THEN [tag |-> response.tag,
          choices |-> <<IF response.choices = None THEN NoneToken
                        ELSE response.choices[1]>>]
    ELSE response

DeserializeResponse(text) ==
    IF text.tag = "ChooseOneOrNone"
    THEN [tag |-> text.tag,
          choices |-> IF text.choices[1] = NoneToken THEN None
                      ELSE Some(text.choices[1])]
    ELSE text

SerializePollData(pd) ==
    [pd EXCEPT !.responses =
        [u \in DOMAIN pd.responses |->
            [i \in 1..Len(pd.responses[u]) |->
                SerializeResponse(pd.responses[u][i])]]]

\* A reader that skips the derived state of a poll.
DeserializePollDataSkippingDerived(text) ==
    [text EXCEPT !.responses =
        [u \in DOMAIN text.responses |->
            [i \in 1..Len(text.responses[u]) |->
                DeserializeResponse(text.responses[u][i])]],
                 !.progresses = << >>,
                 !.result_states = << >>]

DeserializePollData(text) ==
    [text EXCEPT !.responses =
        [u \in DOMAIN text.responses |->
            [i \in 1..Len(text.responses[u]) |->
                DeserializeResponse(text.responses[u][i])]]]

\* ron::ser::to_string_pretty of Db: the map written entry by entry.
Serialize(store) ==
    [state |-> "ron",
     entries |-> {<<k, SerializePollData(store[k])>> : k \in DOMAIN store}]

\* ron::de::from_str: the map rebuilt from its entries.
Deserialize(file) ==
    [k \in {e[1] : e \in file.entries} |->
        DeserializePollData((CHOOSE e \in file.entries : e[1] = k)[2])]

\* Db::write, where fs::write succeeds: the file is replaced whole.
write(store) == Serialize(store)

\* Db::write, where fs::write fails (the unwrap() panics): the old file is
\* kept, or it was truncated and holds no parseable store.
write_failures(file) == {file, CorruptFile}

\* Db::get_from_file: None for no file; a file that does not parse panics.
get_from_file_panics(file) == file.state = "corrupt"
get_from_file(file) ==
    IF file.state = "absent" THEN None ELSE Some(Deserialize(file))

\* The example poll Db::new seeds under key 0: three OneOrNone questions, the
\* tracker of MetricTracker::init_from_questions, one result.
DefaultPoll ==
    Poll(<<Question(Form("OneOrNone", 2)), Question(Form("OneOrNone", 3)),
           Question(Form("OneOrNone", 5))>>,
         <<MetricTracker(0, Index(0), FALSE)>>,
         <<PollResult(<<AtLeast(0, 2)>>)>>,
         "SeekingResponses")

SeededDb == 0 :> PollData(DefaultPoll, << >>, << >>, << >>)

\* Db::update_all_results
update_all_results_panics(store) ==
    \E k \in DOMAIN store : update_results(store[k]).panicked
update_all_results(store) ==
    [k \in DOMAIN store |-> update_results(store[k]).data]

\* Db::new up to its write: the loaded or seeded store, recomputed.
new_panics(file) ==
    \/ get_from_file_panics(file)
    \/ LET loaded == get_from_file(file) IN
         update_all_results_panics(IF loaded = None THEN SeededDb ELSE loaded[1])
\* A Db::new that skips update_all_results.
new_without_update(file) ==
    LET loaded == get_from_file(file) IN
    IF loaded = None THEN SeededDb ELSE loaded[1]

new(file) ==
    LET loaded == get_from_file(file) IN
    update_all_results(IF loaded = None THEN SeededDb ELSE loaded[1])

\* ----------------------------------------------------------------- inputs
\* Scenario A of the specification (it comes with the file EditedFile).
PollA ==
    Poll(<<Question(Form("OneOrNone", 2))>>,
         <<MetricTracker(0, Index(0), TRUE)>>,
         <<PollResult(<<AtLeast(0, 2)>>)>>,
         "SeekingResponses")

\* A Multiple question, a hidden tracker, a requirement with minimum 0 and a
\* result with no requirement; the poll is closed.
PollB ==
    Poll(<<Question(Form("Multiple", 3))>>,
         <<MetricTracker(0, Index(0), TRUE), MetricTracker(0, Index(2), FALSE)>>,
         <<PollResult(<<AtLeast(1, 0)>>), PollResult(<< >>)>>,
         "Closed")

\* A requirement whose metric_index names no tracker.
PollC ==
    Poll(<<Question(Form("RankedChoice", 3))>>,
         <<MetricTracker(0, Index(2), TRUE)>>,
         <<PollResult(<<AtLeast(1, 1)>>)>>,
         "SeekingResponses")

PollInputs == {PollB, PollC}

\* Answer vectors a request may carry: nothing checks them against the poll.
ResponseInputs ==
    { <<ChooseOne(Index(0))>>,
      <<ChooseMultiple(<<Index(0), Index(2)>>)>>,
      << >>,
      <<RankedChoice(<< >>)>> }

\* struct PollResponse and the bodies of the other three routes.
Requests ==
    [op : {"submit"}, key : KeyInputs, user : Users, responses : ResponseInputs]
    \cup [op : {"new_poll"}, poll : PollInputs]
    \cup [op : {"get_poll"}, key : KeyInputs]
    \cup [op : {"get_progress"}, key : KeyInputs]

NoRequest == [op |-> "none"]

\* Once the Mutex is poisoned every handler ends at lock(), before it reads
\* its request: one request per route is enumerated there.
PoisonedRequests ==
    { r \in Requests :
        /\ r.op # "new_poll" => r.key = 0
        /\ r.op = "submit" => r.user = "alice" /\ r.responses = << >>
        /\ r.op = "new_poll" => r.poll = PollB }

\* A data file left by an earlier run or edited by hand: poll A under `key`
\* with one answer and derived state that was never computed.
EditedFile(key) ==
    Serialize(key :> PollData(PollA,
                              "alice" :> <<ChooseOneOrNone(Some(Index(0)))>>,
                              << >>, << >>))

InitialFiles == {NoFile, EditedFile(1), EditedFile(2)}

\* ------------------------------------------------------------------ state
VARIABLES
    up,        \* the server process is running
    db,        \* Db: the store, PollKey -> PollData
    disk,      \* the file data.ron
    lock,      \* the handler holding the Mutex of the store, 0 for none
    poisoned,  \* the Mutex is poisoned: a holder panicked
    pc,        \* each handler's position
    req,       \* each handler's request
    ret,       \* each handler's result, once computed
    snap,      \* the store and the file as each handler found them at lock()
    created,   \* the Poll each key was given when this process first held it
    call,      \* the engine function applied on its own, with its result
    client     \* the browser client: participation flow and progress fetching

server_vars == <<up, db, disk, lock, poisoned, pc, req, ret, snap, created>>
vars == <<up, db, disk, lock, poisoned, pc, req, ret, snap, created, call, client>>

\* Results of the handlers; Panic is a handler that unwound without an answer.
NoResult == [tag |-> "none"]
Error == [tag |-> "Error"]
Panic == [tag |-> "Panic"]
Success == [tag |-> "Success"]
SuccessKey(key) == [tag |-> "Success", key |-> key]
SuccessProgress(progress) == [tag |-> "Success", progress |-> progress]
Found(poll) == [tag |-> "Found", poll |-> poll]
NotFound == [tag |-> "NotFound"]

NoSnap == [db |-> << >>, disk |-> NoFile, poisoned |-> FALSE]

\* No engine function is being applied on its own.
NoCall == [fn |-> "none"]

\* The client before any poll is shown: App::new and ResultsUi::default.
\* submitter and fetch are the Option<Submitter> of Submitting and of
\* poll_progress_fetch ("absent" for None, else the SubmitterState);
\* submit_answer and fetch_answer are the last answer each Submitter
\* returned, in_flight the progress requests sent and not yet ended.
ClientOf(poll) ==
    [poll |-> poll,
     participation |-> "SignIn",
     question_responses |-> << >>,
     submitter |-> "absent",
     submit_answer |-> None,
     stale |-> TRUE,
     fetch |-> "absent",
     fetch_answer |-> None,
     last_fetch |-> FALSE,
     poll_progress |-> None,
     in_flight |-> 0,
     crashed |-> FALSE]

NoClient == ClientOf(Poll(<< >>, << >>, << >>, "SeekingResponses"))

\* The Poll under each key of a store.
PollsOf(store) == [k \in DOMAIN store |-> store[k].poll]

Idle ==
    /\ lock = 0
    /\ poisoned = FALSE
    /\ pc = [p \in Handlers |-> "idle"]
    /\ req = [p \in Handlers |-> NoRequest]
    /\ ret = [p \in Handlers |-> NoResult]
    /\ snap = [p \in Handlers |-> NoSnap]

\* The state after Db::new on one of the initial files.
Init ==
    /\ up = TRUE
    /\ \E file \in InitialFiles :
          /\ db = new(file)
          /\ disk = write(db)
    /\ Idle
    /\ created = PollsOf(db)
    /\ call = NoCall
    /\ client = NoClient

\* --------------------------------------------------------------- handlers
\* A lock() that never waits.
MutexIgnored == TRUE

\* Mutex::lock returns once no other handler holds the guard.
MutexFree == lock = 0

\* get_unused_key: the scan upward from 1.
RECURSIVE ScanKey(_, _)
ScanKey(store, key) ==
    IF key \notin DOMAIN store THEN key ELSE ScanKey(store, key + 1)
\* A key taken from the number of polls stored.
get_unused_key_by_count(store) == Cardinality(DOMAIN store)

\* A scan that does not look at the keys the store holds.
get_unused_key_unseeing(store) == ScanKey(<< >>, 1)

get_unused_key(store) == ScanKey(store, 1)

\* A new_poll that inserts empty derived state, as the seed of Db::new does.
NewPollDataEmpty(poll) == PollData(poll, << >>, << >>, << >>)

\* The PollData new_poll inserts.
NewPollData(poll) ==
    PollData(poll, << >>,
             [i \in 1..Len(poll.metric_trackers) |-> Count(0)],
             [i \in 1..Len(poll.results) |-> from_result(poll.results[i])])

\* The PollProgress get_progress builds: metric_trackers zipped with
\* progresses, a hidden tracker's slot None.
Min(a, b) == IF a <= b THEN a ELSE b
VisibleAlways(tracker, progress) == Some(progress)

Visible(tracker, progress) ==
    IF tracker.publicly_visible THEN Some(progress) ELSE None
PollProgress(poll_data) ==
    [result_states |-> poll_data.result_states,
     metric_progresses |->
        [i \in 1..Min(Len(poll_data.poll.metric_trackers),
                      Len(poll_data.progresses)) |->
            Visible(poll_data.poll.metric_trackers[i], poll_data.progresses[i])]]

\* What a handler answers when lock() returns Err: get_poll unwraps it.
PoisonedResult(op) == IF op = "get_poll" THEN Panic ELSE Error

Finish(p, result) ==
    /\ pc' = [pc EXCEPT ![p] = "ret"]
    /\ ret' = [ret EXCEPT ![p] = result]

\* db.lock() of every handler, with the request it was sent.
lock_db(p) ==
    /\ up
    /\ pc[p] = "idle"
    /\ MutexFree
    /\ \E r \in IF poisoned THEN PoisonedRequests ELSE Requests :
          /\ r.op = "new_poll" => Cardinality(DOMAIN db) < MaxPolls
          /\ req' = [req EXCEPT ![p] = r]
          /\ IF poisoned
             THEN Finish(p, PoisonedResult(r.op))
             ELSE /\ pc' = [pc EXCEPT ![p] = r.op]
                  /\ ret' = ret
    /\ lock' = p
    /\ snap' = [snap EXCEPT ![p] = [db |-> db, disk |-> disk,
                                    poisoned |-> poisoned]]
    /\ UNCHANGED <<up, db, disk, poisoned, created, call, client>>

\* A submit that opens an entry for a key the store does not hold.
submit_insert_or_create(p) ==
    /\ up
    /\ pc[p] = "submit"
    /\ db' = IF req[p].key \in DOMAIN db
             THEN [db EXCEPT ![req[p].key].responses =
                      Insert(@, req[p].user, req[p].responses)]
             ELSE Insert(db, req[p].key,
                         PollData(Poll(<< >>, << >>, << >>, "SeekingResponses"),
                                  req[p].user :> req[p].responses, << >>, << >>))
    /\ pc' = [pc EXCEPT ![p] = "update_results"]
    /\ UNCHANGED <<up, disk, lock, poisoned, req, ret, snap, created, call, client>>

\* A submit that turns down a submission to a closed poll.
submit_insert_unless_closed(p) ==
    /\ up
    /\ pc[p] = "submit"
    /\ IF req[p].key \in DOMAIN db /\ db[req[p].key].poll.status # "Closed"
       THEN /\ db' = [db EXCEPT ![req[p].key].responses =
                        Insert(@, req[p].user, req[p].responses)]
            /\ pc' = [pc EXCEPT ![p] = "update_results"]
            /\ ret' = ret
       ELSE /\ db' = db
            /\ Finish(p, Error)
    /\ UNCHANGED <<up, disk, lock, poisoned, req, snap, created, call, client>>

\* submit: get_mut and the insert into responses.
submit_insert(p) ==
    /\ up
    /\ pc[p] = "submit"
    /\ IF req[p].key \in DOMAIN db
       THEN /\ db' = [db EXCEPT ![req[p].key].responses =
                        Insert(@, req[p].user, req[p].responses)]
            /\ pc' = [pc EXCEPT ![p] = "update_results"]
            /\ ret' = ret
       ELSE /\ db' = db
            /\ Finish(p, Error)
    /\ UNCHANGED <<up, disk, lock, poisoned, req, snap, created, call, client>>

\* A submit that recomputes every poll of the store (update_all_results).
submit_update_results_of_all(p) ==
    /\ up
    /\ pc[p] = "update_results"
    /\ IF update_all_results_panics(db)
       THEN /\ db' = db
            /\ poisoned' = TRUE
            /\ Finish(p, Panic)
       ELSE /\ db' = update_all_results(db)
            /\ poisoned' = poisoned
            /\ pc' = [pc EXCEPT ![p] = "write"]
            /\ ret' = ret
    /\ UNCHANGED <<up, disk, lock, req, snap, created, call, client>>

\* A submit that recomputes from the submitted answer alone.
submit_update_results_of_one(p) ==
    /\ up
    /\ pc[p] = "update_results"
    /\ LET alone == [db[req[p].key] EXCEPT
                        !.responses = req[p].user :> req[p].responses]
           updated == update_results(alone) IN
          /\ db' = [db EXCEPT ![req[p].key] =
                       [updated.data EXCEPT !.responses = db[req[p].key].responses]]
          /\ IF updated.panicked
             THEN /\ poisoned' = TRUE
                  /\ Finish(p, Panic)
             ELSE /\ poisoned' = poisoned
                  /\ pc' = [pc EXCEPT ![p] = "write"]
                  /\ ret' = ret
    /\ UNCHANGED <<up, disk, lock, req, snap, created, call, client>>

\* A submit that drops the guard after update_results, before db.write().
submit_update_results_releasing(p) ==
    /\ up
    /\ pc[p] = "update_results"
    /\ LET updated == update_results(db[req[p].key]) IN
          /\ db' = [db EXCEPT ![req[p].key] = updated.data]
          /\ IF updated.panicked
             THEN /\ poisoned' = TRUE
                  /\ lock' = lock
                  /\ Finish(p, Panic)
             ELSE /\ poisoned' = poisoned
                  /\ lock' = 0
                  /\ pc' = [pc EXCEPT ![p] = "write"]
                  /\ ret' = ret
    /\ UNCHANGED <<up, disk, req, snap, created, call, client>>

\* submit: poll_data.update_results().
submit_update_results(p) ==
    /\ up
    /\ pc[p] = "update_results"
    /\ LET updated == update_results(db[req[p].key]) IN
          /\ db' = [db EXCEPT ![req[p].key] = updated.data]
          /\ IF updated.panicked
             THEN /\ poisoned' = TRUE
                  /\ Finish(p, Panic)
             ELSE /\ poisoned' = poisoned
                  /\ pc' = [pc EXCEPT ![p] = "write"]
                  /\ ret' = ret
    /\ UNCHANGED <<up, disk, lock, req, snap, created, call, client>>

\* A submit that answers Success without db.write().
submit_skip_write(p) ==
    /\ up
    /\ pc[p] = "write"
    /\ Finish(p, Success)
    /\ UNCHANGED <<up, db, disk, lock, poisoned, req, snap, created, call, client>>

\* submit: db.write() and the Success that follows it.
submit_write(p) ==
    /\ up
    /\ pc[p] = "write"
    /\ disk' = write(db)
    /\ Finish(p, Success)
    /\ UNCHANGED <<up, db, lock, poisoned, req, snap, created, call, client>>

\* submit: db.write() where fs::write fails and the unwrap() panics.
submit_write_fails(p) ==
    /\ up
    /\ pc[p] = "write"
    /\ disk' \in write_failures(disk)
    /\ poisoned' = TRUE
    /\ Finish(p, Panic)
    /\ UNCHANGED <<up, db, lock, req, snap, created, call, client>>

\* new_poll: the key, the insert and the answer.
new_poll(p) ==
    /\ up
    /\ pc[p] = "new_poll"
    /\ LET key == get_unused_key(db) IN
          /\ db' = Insert(db, key, NewPollData(req[p].poll))
          /\ created' = Insert(created, key, req[p].poll)
          /\ Finish(p, SuccessKey(key))
    /\ UNCHANGED <<up, disk, lock, poisoned, req, snap, call, client>>

\* A get_poll that takes key 0 for no key.
get_poll_skips_zero(p) ==
    /\ up
    /\ pc[p] = "get_poll"
    /\ Finish(p, IF req[p].key \in DOMAIN db /\ req[p].key # 0
                 THEN Found(db[req[p].key].poll) ELSE NotFound)
    /\ UNCHANGED <<up, db, disk, lock, poisoned, req, snap, created, call, client>>

\* get_poll
get_poll(p) ==
    /\ up
    /\ pc[p] = "get_poll"
    /\ Finish(p, IF req[p].key \in DOMAIN db
                 THEN Found(db[req[p].key].poll) ELSE NotFound)
    /\ UNCHANGED <<up, db, disk, lock, poisoned, req, snap, created, call, client>>

\* A get_progress that runs update_results on the poll before it answers.
get_progress_recomputing(p) ==
    /\ up
    /\ pc[p] = "get_progress"
    /\ IF req[p].key \in DOMAIN db
       THEN LET updated == update_results(db[req[p].key]) IN
            /\ db' = [db EXCEPT ![req[p].key] = updated.data]
            /\ Finish(p, SuccessProgress(PollProgress(updated.data)))
            /\ poisoned' = poisoned
       ELSE /\ db' = db
            /\ Finish(p, Panic)
            /\ poisoned' = TRUE
    /\ UNCHANGED <<up, disk, lock, req, snap, created, call, client>>

\* get_progress: get(&key).unwrap() panics on an absent key, guard held.
get_progress(p) ==
    /\ up
    /\ pc[p] = "get_progress"
    /\ IF req[p].key \in DOMAIN db
       THEN /\ Finish(p, SuccessProgress(PollProgress(db[req[p].key])))
            /\ poisoned' = poisoned
       ELSE /\ Finish(p, Panic)
            /\ poisoned' = TRUE
    /\ UNCHANGED <<up, db, disk, lock, req, snap, created, call, client>>

\* The guard is dropped and the answer (or the unwinding) leaves the handler.
unlock(p) ==
    /\ up
    /\ pc[p] = "ret"
    /\ lock' = IF lock = p THEN 0 ELSE lock
    /\ pc' = [pc EXCEPT ![p] = "idle"]
    /\ req' = [req EXCEPT ![p] = NoRequest]
    /\ ret' = [ret EXCEPT ![p] = NoResult]
    /\ snap' = [snap EXCEPT ![p] = NoSnap]
    /\ UNCHANGED <<up, db, disk, poisoned, created, call, client>>

\* ---------------------------------------------------------------- process
\* The process ends (killed, or stopped by its operator): memory is lost.
kill ==
    /\ up
    /\ up' = FALSE
    /\ db' = << >>
    /\ lock' = 0
    /\ poisoned' = FALSE
    /\ pc' = [p \in Handlers |-> "idle"]
    /\ req' = [p \in Handlers |-> NoRequest]
    /\ ret' = [p \in Handlers |-> NoResult]
    /\ snap' = [p \in Handlers |-> NoSnap]
    /\ created' = << >>
    /\ UNCHANGED <<disk, call, client>>

\* main: Db::new completes (load or seed, update_all_results, write).
start ==
    /\ ~up
    /\ ~new_panics(disk)
    /\ up' = TRUE
    /\ db' = new(disk)
    /\ disk' = write(db')
    /\ created' = PollsOf(db')
    /\ UNCHANGED <<lock, poisoned, pc, req, ret, snap, call, client>>

\* main: Db::new where its write fails; the process does not come up.
start_write_fails ==
    /\ ~up
    /\ ~new_panics(disk)
    /\ disk # CorruptFile
    /\ disk' = CorruptFile
    /\ UNCHANGED <<up, db, lock, poisoned, pc, req, ret, snap, created, call, client>>

Next ==
    \/ \E p \in Handlers :
          \/ lock_db(p)
          \/ submit_insert(p)
          \/ submit_update_results(p)
          \/ submit_write(p)
          \/ submit_write_fails(p)
          \/ new_poll(p)
          \/ get_poll(p)
          \/ get_progress(p)
          \/ unlock(p)
    \/ kill
    \/ start
    \/ start_write_fails

Spec == Init /\ [][Next]_vars

\* The server started on a data file that holds a store without polls: every
\* poll of the store is then one that create_poll made.
EmptiedFile == Serialize(<< >>)

InitEmptied ==
    /\ up = TRUE
    /\ db = new(EmptiedFile)
    /\ disk = write(db)
    /\ Idle
    /\ created = PollsOf(db)
    /\ call = NoCall
    /\ client = NoClient

SpecEmptied == InitEmptied /\ [][Next]_vars

\* ----------------------------------------------------------------- engine
\* The engine functions applied on their own, outside the server.
EngineInit ==
    /\ up = FALSE
    /\ db = << >>
    /\ disk = NoFile
    /\ Idle
    /\ created = << >>
    /\ call = NoCall
    /\ client = NoClient

\* Metrics and response maps calculate_progress is applied to.
MetricInputs ==
    [question_index : {0, 1}, choice : {Index(0), Index(2)}]

EngineAnswers ==
    { << >>,
      <<ChooseOneOrNone(None)>>,
      <<ChooseOneOrNone(Some(Index(0)))>>,
      <<ChooseOne(Index(2))>>,
      <<ChooseMultiple(<<Index(0), Index(2)>>)>>,
      <<ChooseMultiple(<<Index(0), Index(0)>>)>>,
      <<RankedChoice(<<Index(2), Index(0), Index(1)>>)>>,
      <<RankedChoice(<<Index(0), Index(2)>>)>>,
      <<RankedChoice(<< >>)>>,
      <<ChooseOne(Index(0)), ChooseMultiple(<<Index(2)>>)>> }

ResponseMaps ==
    UNION {[respondents -> EngineAnswers] : respondents \in SUBSET Users}

\* Metric::calculate_progress applied to a metric and a response map.
apply_calculate_progress ==
    /\ \E metric \in MetricInputs, responses \in ResponseMaps :
          call' = [fn |-> "calculate_progress",
                   metric |-> metric,
                   responses |-> responses,
                   result |-> IF calculate_progress_panics(metric, responses)
                              THEN Panic
                              ELSE calculate_progress(metric, responses)]
    /\ UNCHANGED <<server_vars, client>>

\* The values of a u8: `i as u8` keeps i modulo this.
U8Range == 256

\* Poll::init_responses: one answer per question, by the question's form.
init_response(form) ==
    CASE form.kind \in {"OneOrNone", "YesNoNone"} -> ChooseOneOrNone(None)
      [] form.kind = "One" -> ChooseOne(Index(0))
      [] form.kind = "YesNo" -> ChooseOne(YesOrNo(FALSE))
      [] form.kind = "Multiple" -> ChooseMultiple(<< >>)
      [] form.kind = "RankedChoice" ->
            RankedChoice([i \in 1..form.options |-> Index((i - 1) % U8Range)])

init_responses(poll) ==
    [q \in 1..Len(poll.questions) |-> init_response(poll.questions[q].form)]

\* Question lists init_responses is applied to: every Form variant, and
\* RankedChoice with no option, a few, and as many as a u8 counts and one more.
MaxQuestions == 2

FormInputs ==
    { Form("OneOrNone", 2), Form("One", 2), Form("Multiple", 3),
      Form("YesNoNone", 0), Form("YesNo", 0),
      Form("RankedChoice", 0), Form("RankedChoice", 3),
      Form("RankedChoice", U8Range), Form("RankedChoice", U8Range + 1) }

QuestionLists ==
    UNION {[1..n -> {Question(form) : form \in FormInputs}] : n \in 0..MaxQuestions}

\* Poll::init_responses applied to a poll with these questions.
apply_init_responses ==
    /\ \E questions \in QuestionLists :
          LET poll == Poll(questions, << >>, << >>, "SeekingResponses") IN
          call' = [fn |-> "init_responses",
                   poll |-> poll,
                   result |-> init_responses(poll)]
    /\ UNCHANGED <<server_vars, client>>

EngineNext ==
    \/ apply_calculate_progress
    \/ apply_init_responses

SpecEngine == EngineInit /\ [][EngineNext]_vars

\* ----------------------------------------------------------------- client
\* The browser client showing one poll it found: ParticipationState::process
\* and ResultsUi::fetch, each called once per frame.

\* A poll with a One, a YesNoNone and a YesNo question.
PollD ==
    Poll(<<Question(Form("One", 2)), Question(Form("YesNoNone", 0)),
           Question(Form("YesNo", 0))>>,
         << >>, << >>, "SeekingResponses")

ClientPolls == {PollA, PollB, PollC, PollD}

ClientInit ==
    /\ up = FALSE
    /\ db = << >>
    /\ disk = NoFile
    /\ Idle
    /\ created = << >>
    /\ call = NoCall
    /\ client \in {ClientOf(poll) : poll \in ClientPolls}

\* Submitter::poll: the Submitter's next state, the answer it returns, whether
\* it sent a request and whether a request got its end. "Spent" is Converting
\* after poll returned the answer: the early return skips the assignment of
\* self.state, and the future has given its value.
SubmitterPoll(state, answers) ==
    CASE state = "None" ->
            {[state |-> "Submitting", answer |-> None, sent |-> 1, done |-> 0]}
      [] state = "Submitting" ->
            {[state |-> "Submitting", answer |-> None, sent |-> 0, done |-> 0],
             [state |-> "None", answer |-> None, sent |-> 0, done |-> 1],
             [state |-> "Converting", answer |-> None, sent |-> 0, done |-> 0]}
      [] state = "Converting" ->
            {[state |-> "Converting", answer |-> None, sent |-> 0, done |-> 0],
             [state |-> "None", answer |-> None, sent |-> 0, done |-> 1]}
            \cup {[state |-> "Spent", answer |-> Some(a), sent |-> 0, done |-> 1] :
                     a \in answers}
      [] state = "Spent" ->
            {[state |-> "Spent", answer |-> None, sent |-> 0, done |-> 0]}

\* The arms of the match on (form, response) in the SignedIn state.
ArmHandled(form, response) ==
    \/ form.kind = "OneOrNone" /\ response.tag = "ChooseOneOrNone"
    \/ form.kind = "One" /\ response.tag = "ChooseOne"
    \/ form.kind = "YesNoNone" /\ response.tag = "ChooseOneOrNone"
    \/ form.kind = "YesNo" /\ response.tag = "ChooseOne"

\* The unwrap() calls inside the arms: as_index on a YesOrNo, or
\* as_yes_or_no_mut on an Index.
ArmUnwrapPanics(form, response) ==
    \/ /\ form.kind = "OneOrNone" /\ form.options > 0
       /\ response.choices # None /\ response.choices[1].kind # "Index"
    \/ /\ form.kind = "One" /\ form.options > 0
       /\ response.choices[1].kind # "Index"
    \/ form.kind = "YesNo" /\ response.choices[1].kind # "YesOrNo"

\* A click on one button of question q, and what it makes of the answer.
Buttons(form) ==
    CASE form.kind \in {"OneOrNone", "One"} -> 0..(form.options - 1)
      [] form.kind = "YesNoNone" -> {0, 1}
      [] form.kind = "YesNo" -> {0}
      [] OTHER -> {}

Clicked(form, response, button) ==
    CASE form.kind = "OneOrNone" ->
            IF response.choices = Some(Index(button % U8Range))
            THEN ChooseOneOrNone(None)
            ELSE ChooseOneOrNone(Some(Index(button % U8Range)))
      [] form.kind = "One" -> ChooseOne(Index(button % U8Range))
      [] form.kind = "YesNoNone" ->
            IF response.choices = Some(YesOrNo(button = 1))
            THEN ChooseOneOrNone(None)
            ELSE ChooseOneOrNone(Some(YesOrNo(button = 1)))
      [] form.kind = "YesNo" ->
            ChooseOne(YesOrNo(response.choices[1] = YesOrNo(FALSE)))

\* process, SignIn: the SIGN IN button.
process_sign_in ==
    /\ ~client.crashed
    /\ client.participation = "SignIn"
    /\ client' = [client EXCEPT !.participation = "SignedIn",
                                !.question_responses = << >>]
    /\ UNCHANGED <<server_vars, call>>

\* process, SignedIn: init_responses when the answers are empty, the match on
\* every (form, response) pair, one click at most, the SUBMIT button.
process_signed_in ==
    /\ ~client.crashed
    /\ client.participation = "SignedIn"
    /\ LET questions == client.poll.questions
           responses == IF client.question_responses = << >>
                        THEN init_responses(client.poll)
                        ELSE client.question_responses
           shown == 1..Min(Len(questions), Len(responses))
       IN IF \E q \in shown :
                \/ ~ArmHandled(questions[q].form, responses[q])
                \/ ArmUnwrapPanics(questions[q].form, responses[q])
          THEN client' = [client EXCEPT !.question_responses = responses,
                                        !.crashed = TRUE]
          ELSE \E submit \in BOOLEAN :
               \E answered \in
                    {responses} \cup
                    UNION {{[responses EXCEPT ![q] =
                                Clicked(questions[q].form, responses[q], button)] :
                              button \in Buttons(questions[q].form)} :
                           q \in shown} :
                  client' = [client EXCEPT
                               !.question_responses = answered,
                               !.participation =
                                   IF submit THEN "Submitting" ELSE @,
                               !.submitter = "absent"]
    /\ UNCHANGED <<server_vars, call>>

\* App: the Sign Out button shown while SignedIn.
sign_out ==
    /\ ~client.crashed
    /\ client.participation = "SignedIn"
    /\ client' = [client EXCEPT !.participation = "SignIn"]
    /\ UNCHANGED <<server_vars, call>>

\* The answers of the server to a submission.
PollSubmissionResults == {"Success", "Error"}

\* process, Submitting, that goes back to SignedIn on an Error.
process_submitting_retreating ==
    /\ ~client.crashed
    /\ client.participation = "Submitting"
    /\ IF client.submitter = "absent"
       THEN client' = [client EXCEPT !.submitter = "None"]
       ELSE \E polled \in SubmitterPoll(client.submitter, PollSubmissionResults) :
               client' = [client EXCEPT
                            !.submitter =
                                IF polled.answer = Some("Success")
                                THEN "absent" ELSE polled.state,
                            !.submit_answer =
                                IF polled.answer # None THEN polled.answer ELSE @,
                            !.stale = IF polled.answer # None THEN TRUE ELSE @,
                            !.participation =
                                IF polled.answer = Some("Success")
                                THEN "SubmitConfirmation"
                                ELSE IF polled.answer = Some("Error")
                                THEN "SignedIn" ELSE @]
    /\ UNCHANGED <<server_vars, call>>

\* process, Submitting: the Submitter is made on the first frame and polled on
\* the later ones; an answer sets stale, Success moves on.
process_submitting ==
    /\ ~client.crashed
    /\ client.participation = "Submitting"
    /\ IF client.submitter = "absent"
       THEN client' = [client EXCEPT !.submitter = "None"]
       ELSE \E polled \in SubmitterPoll(client.submitter, PollSubmissionResults) :
               client' = [client EXCEPT
                            !.submitter =
                                IF polled.answer = Some("Success")
                                THEN "absent" ELSE polled.state,
                            !.submit_answer =
                                IF polled.answer # None THEN polled.answer ELSE @,
                            !.stale = IF polled.answer # None THEN TRUE ELSE @,
                            !.participation =
                                IF polled.answer = Some("Success")
                                THEN "SubmitConfirmation" ELSE @]
    /\ UNCHANGED <<server_vars, call>>

\* process, SubmitConfirmation: the SIGN IN button.
process_submit_confirmation ==
    /\ ~client.crashed
    /\ client.participation = "SubmitConfirmation"
    /\ client' = [client EXCEPT !.participation = "SignIn",
                                !.submit_answer = None]
    /\ UNCHANGED <<server_vars, call>>

\* The answers of the server to a progress request.
ProgressReportResults ==
    {[tag |-> "Success", progress |-> "first"],
     [tag |-> "Success", progress |-> "second"],
     [tag |-> "Error", progress |-> "none"]}

\* A fetch that makes a new Submitter whenever the progress is stale, also
\* over one that is waiting for its answer.
fetch_over_pending ==
    /\ ~client.crashed
    /\ IF client.fetch # "absent" /\ ~client.stale
       THEN \E polled \in SubmitterPoll(client.fetch, ProgressReportResults) :
               client' = [client EXCEPT
                  !.fetch = IF polled.answer # None THEN "absent" ELSE polled.state,
                  !.fetch_answer = polled.answer,
                  !.poll_progress =
                      IF polled.answer # None /\ polled.answer[1].tag = "Success"
                      THEN Some(polled.answer[1].progress) ELSE @,
                  !.stale =
                      IF polled.answer # None /\ polled.answer[1].tag = "Success"
                      THEN FALSE ELSE @,
                  !.in_flight = @ + polled.sent - polled.done]
       ELSE client' = [client EXCEPT !.fetch = "Submitting",
                                     !.fetch_answer = None,
                                     !.last_fetch = TRUE,
                                     !.in_flight = @ + 1]
    /\ UNCHANGED <<server_vars, call>>

\* ResultsUi::fetch: poll the Submitter when there is one, else make one when
\* the progress is stale, was never fetched, or the last fetch is old.
fetch ==
    /\ ~client.crashed
    /\ IF client.fetch # "absent"
       THEN \E polled \in SubmitterPoll(client.fetch, ProgressReportResults) :
               client' = [client EXCEPT
                  !.fetch = IF polled.answer # None THEN "absent" ELSE polled.state,
                  !.fetch_answer = polled.answer,
                  !.poll_progress =
                      IF polled.answer # None /\ polled.answer[1].tag = "Success"
                      THEN Some(polled.answer[1].progress) ELSE @,
                  !.stale =
                      IF polled.answer # None /\ polled.answer[1].tag = "Success"
                      THEN FALSE ELSE @,
                  !.in_flight = @ + polled.sent - polled.done]
       ELSE \E elapsed \in BOOLEAN :
               IF client.stale \/ ~client.last_fetch \/ elapsed
               THEN client' = [client EXCEPT !.fetch = "None",
                                             !.fetch_answer = None,
                                             !.last_fetch = TRUE]
               ELSE client' = client
    /\ UNCHANGED <<server_vars, call>>

ClientNext ==
    \/ process_sign_in
    \/ process_signed_in
    \/ sign_out
    \/ process_submitting
    \/ process_submit_confirmation
    \/ fetch

SpecClient == ClientInit /\ [][ClientNext]_vars

\* ------------------------------------------------------------ vocabulary
\* Handler p has computed its answer and still holds what lock() gave it.
Returning(p, op) == pc[p] = "ret" /\ req[p].op = op

\* The derived state of pd is what update_results computes from its responses.
Recomputed(pd) ==
    /\ ~ProgressesPanic(pd)
    /\ pd.progresses = NewProgresses(pd)
    /\ ~ResultStatesPanic(pd.poll, pd.progresses)
    /\ pd.result_states = NewResultStates(pd.poll, pd.progresses)

\* update_results runs to its end on pd.
CanRecompute(pd) ==
    /\ ~ProgressesPanic(pd)
    /\ ~ResultStatesPanic(pd.poll, NewProgresses(pd))

\* The FormResponse variant that answers a Form (as Poll::init_responses pairs them).
FormResponseMatches(form, response) ==
    CASE form.kind \in {"OneOrNone", "YesNoNone"} -> response.tag = "ChooseOneOrNone"
      [] form.kind \in {"One", "YesNo"} -> response.tag = "ChooseOne"
      [] form.kind = "Multiple" -> response.tag = "ChooseMultiple"
      [] form.kind = "RankedChoice" -> response.tag = "RankedChoice"

\* An answer vector has the shape of the poll's questions.
ShapeMatches(poll, responses) ==
    /\ Len(responses) = Len(poll.questions)
    /\ \A i \in 1..Len(responses) :
          FormResponseMatches(poll.questions[i].form, responses[i])

\* The answer a respondent gave to the metric's question.
AnswerTo(metric, responses, u) == responses[u][metric.question_index + 1]

\* The rule of the specification's table (4.2): a respondent's answer
\* satisfies a metric's choice.
Satisfies(response, choice) ==
    CASE response.tag = "ChooseOneOrNone" -> response.choices = Some(choice)
      [] response.tag = "ChooseOne" -> response.choices = <<choice>>
      [] response.tag = "ChooseMultiple" ->
            \E i \in 1..Len(response.choices) : response.choices[i] = choice
      [] response.tag = "RankedChoice" -> response.choices[1] = choice

\* calculate_progress was applied and returned a count.
Counted == call.fn = "calculate_progress" /\ call.result # Panic

\* ----------------------------------------------------------------- claims
\* C1: whenever no store operation is in progress, every poll's progresses
\* and result_states are the recomputation from its current responses.
C1_DerivedStateIsRecomputation ==
    (up /\ lock = 0 /\ ~poisoned) =>
        \A k \in DOMAIN db : CanRecompute(db[k]) => Recomputed(db[k])

\* C2: a successful create_poll returns the smallest positive integer that was
\* not a key of the store when it was called.
C2_CreateReturnsSmallestUnusedKey ==
    \A p \in Handlers :
        (Returning(p, "new_poll") /\ ret[p].tag = "Success") =>
            /\ ret[p].key >= 1
            /\ ret[p].key \notin DOMAIN snap[p].db
            /\ \A j \in 1..(ret[p].key - 1) : j \in DOMAIN snap[p].db
            /\ DOMAIN db = DOMAIN snap[p].db \cup {ret[p].key}

\* C2 witness: a create that had to pass over a taken key.
C2_Witness ==
    \E p \in Handlers :
        /\ Returning(p, "new_poll") /\ ret[p].tag = "Success"
        /\ ret[p].key = 2 /\ DOMAIN snap[p].db = {1}

\* C3: after a successful submit_response the user's entry is the submitted
\* answer vector, nothing else of the map changed, and the derived state is
\* the recomputation from that map.
C3_SubmitIsLastWriteWins ==
    \A p \in Handlers :
        (Returning(p, "submit") /\ ret[p] = Success) =>
            /\ req[p].key \in DOMAIN snap[p].db
            /\ db[req[p].key].responses[req[p].user] = req[p].responses
            /\ db[req[p].key].responses =
                  Insert(snap[p].db[req[p].key].responses, req[p].user,
                         req[p].responses)
            /\ Recomputed(db[req[p].key])

\* C3 witness: a user's second, different answer vector replaced the first and
\* the counts changed with it.
C3_Witness ==
    \E p \in Handlers :
        /\ Returning(p, "submit") /\ ret[p] = Success
        /\ req[p].user \in DOMAIN snap[p].db[req[p].key].responses
        /\ snap[p].db[req[p].key].responses[req[p].user] # req[p].responses
        /\ db[req[p].key].progresses # snap[p].db[req[p].key].progresses

\* C4: submit_response for a key the store does not hold answers Error and
\* changes neither the store nor the snapshot file.
C4_SubmitToAbsentKeyFails ==
    \A p \in Handlers :
        (pc[p] \in {"update_results", "write", "ret"} /\ req[p].op = "submit"
         /\ req[p].key \notin DOMAIN snap[p].db) =>
            /\ pc[p] = "ret"
            /\ ret[p] = Error
            /\ db = snap[p].db
            /\ disk = snap[p].disk

\* C4 witness: the key was absent and the Mutex was sound.
C4_Witness ==
    \E p \in Handlers :
        /\ Returning(p, "submit") /\ ~poisoned
        /\ req[p].key \notin DOMAIN snap[p].db
        /\ ret[p] = Error

\* C5: a submission whose shape does not match the poll's questions answers
\* Error and leaves the poll's responses and progresses as they were.
C5_MismatchedSubmissionIsRejected ==
    \A p \in Handlers :
        (Returning(p, "submit") /\ req[p].key \in DOMAIN snap[p].db
         /\ ~ShapeMatches(snap[p].db[req[p].key].poll, req[p].responses)) =>
            /\ ret[p] = Error
            /\ db[req[p].key].responses = snap[p].db[req[p].key].responses
            /\ db[req[p].key].progresses = snap[p].db[req[p].key].progresses

\* C6: a reader (get_poll or get_progress holding the guard) never finds a
\* poll whose responses hold a submission while its progresses and
\* result_states are not the ones computed from those responses.
C6_ReadersSeeSubmissionsWhole ==
    \A p \in Handlers :
        pc[p] \in {"get_poll", "get_progress"} =>
            \A k \in DOMAIN db :
                db[k].responses # << >> => Recomputed(db[k])

\* C6 witness: a reader holds the guard over a poll two users answered, with
\* counts that are no longer the ones of its creation.
C6_Witness ==
    \E p \in Handlers :
        /\ pc[p] = "get_progress"
        /\ req[p].key \in DOMAIN db
        /\ DOMAIN db[req[p].key].responses = Users
        /\ db[req[p].key].progresses # NewPollData(db[req[p].key].poll).progresses

\* C7: when create_poll answers Success{key}, the snapshot file holds the new
\* poll under key.
C7_CreatePersistsBeforeReturning ==
    \A p \in Handlers :
        (Returning(p, "new_poll") /\ ret[p].tag = "Success") =>
            /\ disk.state = "ron"
            /\ ret[p].key \in DOMAIN Deserialize(disk)
            /\ Deserialize(disk)[ret[p].key].poll = req[p].poll

\* C8: when submit_response answers Success, the snapshot file is the whole
\* store, new responses and recomputed derived state together.
C8_SubmitPersistsRecomputedStore ==
    \A p \in Handlers :
        (Returning(p, "submit") /\ ret[p] = Success) =>
            /\ disk = Serialize(db)
            /\ Deserialize(disk) = db
            /\ Deserialize(disk)[req[p].key].responses[req[p].user] = req[p].responses
            /\ Recomputed(Deserialize(disk)[req[p].key])

\* C8 witness: the submission changed a count and the file changed with it.
C8_Witness ==
    \E p \in Handlers :
        /\ Returning(p, "submit") /\ ret[p] = Success
        /\ db[req[p].key].progresses # snap[p].db[req[p].key].progresses
        /\ snap[p].disk = Serialize(snap[p].db)
        /\ disk # snap[p].disk

\* C9: get_progress for a poll the store holds answers Success with one slot
\* per tracker, None exactly for the hidden trackers and the stored progress
\* otherwise, and with the stored result_states.
C9_ProgressProjection ==
    \A p \in Handlers :
        (Returning(p, "get_progress") /\ req[p].key \in DOMAIN db
         /\ ~poisoned) =>
            LET poll_data == db[req[p].key]
                trackers == poll_data.poll.metric_trackers
            IN /\ ret[p].tag = "Success"
               /\ Len(ret[p].progress.metric_progresses) = Len(trackers)
               /\ \A i \in 1..Len(trackers) :
                     /\ ret[p].progress.metric_progresses[i] = None
                           <=> ~trackers[i].publicly_visible
                     /\ trackers[i].publicly_visible =>
                           ret[p].progress.metric_progresses[i] =
                              Some(poll_data.progresses[i])
               /\ ret[p].progress.result_states = poll_data.result_states

\* C9 witness: a poll with a visible and a hidden tracker, both counted.
C9_Witness ==
    \E p \in Handlers :
        /\ Returning(p, "get_progress") /\ ret[p].tag = "Success"
        /\ db[req[p].key].progresses = <<Count(1), Count(1)>>
        /\ ret[p].progress.metric_progresses = <<Some(Count(1)), None>>

\* C10: get_progress for a key the store does not hold answers Error; it
\* does not abort the request.
C10_ProgressOfAbsentKeyIsError ==
    \A p \in Handlers :
        (Returning(p, "get_progress") /\ req[p].key \notin DOMAIN db) =>
            ret[p] = Error

\* C11: with the Mutex sound, get_poll answers Found with the Poll the key
\* was created with when the store holds the key, and NotFound when it does
\* not.
C11_GetPollReturnsStoredPoll ==
    \A p \in Handlers :
        (Returning(p, "get_poll") /\ ~poisoned) =>
            IF req[p].key \in DOMAIN db
            THEN /\ req[p].key \in DOMAIN created
                 /\ ret[p] = Found(created[req[p].key])
            ELSE ret[p] = NotFound

\* C11 witness: the poll was created by new_poll and has been answered since.
C11_Witness ==
    \E p \in Handlers :
        /\ Returning(p, "get_poll")
        /\ ret[p] = Found(PollB)
        /\ req[p].key >= 1
        /\ db[req[p].key].responses # << >>

\* C12: directly after create_poll the new entry has Count(0) for every
\* tracker, every requirements_met entry and every overall_met false, and no
\* responses.
C12_CreatedPollIsZeroed ==
    \A p \in Handlers :
        (Returning(p, "new_poll") /\ ret[p].tag = "Success") =>
            LET poll_data == db[ret[p].key] IN
            /\ poll_data.poll = req[p].poll
            /\ poll_data.responses = << >>
            /\ Len(poll_data.progresses) = Len(req[p].poll.metric_trackers)
            /\ \A i \in 1..Len(poll_data.progresses) :
                  poll_data.progresses[i] = Count(0)
            /\ Len(poll_data.result_states) = Len(req[p].poll.results)
            /\ \A i \in 1..Len(poll_data.result_states) :
                  /\ poll_data.result_states[i].overall_met = FALSE
                  /\ Len(poll_data.result_states[i].requirements_met) =
                        Len(req[p].poll.results[i].requirements)
                  /\ \A j \in 1..Len(poll_data.result_states[i].requirements_met) :
                        poll_data.result_states[i].requirements_met[j] = FALSE

\* C12 witness: the poll created has two trackers, a requirement with
\* minimum 0 and a result without requirements.
C12_Witness ==
    \E p \in Handlers :
        /\ Returning(p, "new_poll") /\ ret[p].tag = "Success"
        /\ req[p].poll = PollB
        /\ db[ret[p].key].result_states =
              <<ResultState(<<FALSE>>, FALSE), ResultState(<< >>, FALSE)>>

\* C13: a successful submission of the answer vector the user already has
\* in the poll leaves responses, progresses and result_states as they were.
C13_ResubmissionIsIdempotent ==
    \A p \in Handlers :
        (Returning(p, "submit") /\ ret[p] = Success
         /\ req[p].user \in DOMAIN snap[p].db[req[p].key].responses
         /\ snap[p].db[req[p].key].responses[req[p].user] = req[p].responses) =>
            /\ db[req[p].key].responses = snap[p].db[req[p].key].responses
            /\ db[req[p].key].progresses = snap[p].db[req[p].key].progresses
            /\ db[req[p].key].result_states = snap[p].db[req[p].key].result_states

\* C13 witness: the repeated answer is one that counts.
C13_Witness ==
    \E p \in Handlers :
        /\ Returning(p, "submit") /\ ret[p] = Success
        /\ req[p].user \in DOMAIN snap[p].db[req[p].key].responses
        /\ snap[p].db[req[p].key].responses[req[p].user] = req[p].responses
        /\ \E i \in 1..Len(db[req[p].key].progresses) :
              db[req[p].key].progresses[i].val > 0

\* C14: calculate_progress returns Count(n), n the number of respondents
\* whose answer to the metric's question satisfies the rule of the table; a
\* ChooseMultiple answer counts once per respondent.
C14_CountIsNumberOfRespondents ==
    Counted =>
        call.result =
            Count(Cardinality({u \in DOMAIN call.responses :
                Satisfies(AnswerTo(call.metric, call.responses, u),
                          call.metric.choice)}))

\* C15: among RankedChoice answers (the other respondents chose nothing),
\* calculate_progress counts exactly the respondents whose first rank is the
\* metric's choice.
C15_OnlyFirstRankCounts ==
    Counted =>
        LET ranked == {u \in DOMAIN call.responses :
                AnswerTo(call.metric, call.responses, u).tag = "RankedChoice"}
        IN (\A u \in (DOMAIN call.responses) \ ranked :
                AnswerTo(call.metric, call.responses, u) = ChooseOneOrNone(None))
            => call.result =
                  Count(Cardinality({u \in ranked :
                      AnswerTo(call.metric, call.responses, u).choices[1] =
                          call.metric.choice}))

\* C15 witness: Index(0) is alice's second rank and bob's first; it counts once.
C15_Witness ==
    /\ Counted
    /\ call.metric = [question_index |-> 0, choice |-> Index(0)]
    /\ call.responses =
          ("alice" :> <<RankedChoice(<<Index(2), Index(0), Index(1)>>)>>
           @@ "bob" :> <<RankedChoice(<<Index(0), Index(2)>>)>>)
    /\ call.result = Count(1)

\* C16: a requirement whose metric_index is outside progresses is answered
\* with an Error and never a panic: a submit_response that reaches such a
\* requirement ends in Error.
C16_OutOfRangeRequirementIsError ==
    \A p \in Handlers :
        (Returning(p, "submit") /\ req[p].key \in DOMAIN snap[p].db
         /\ ~ProgressesPanic(db[req[p].key])
         /\ ResultStatesPanic(db[req[p].key].poll, db[req[p].key].progresses)) =>
            /\ ret[p] = Error
            /\ ~poisoned

\* C17: every ResultState of the store has overall_met equal to the AND of its
\* requirements_met, true when there is no requirement.
C17_OverallMetIsConjunction ==
    up =>
        \A k \in DOMAIN db :
            \A i \in 1..Len(db[k].result_states) :
                db[k].result_states[i].overall_met =
                    (\A j \in 1..Len(db[k].result_states[i].requirements_met) :
                        db[k].result_states[i].requirements_met[j])

\* C18: a submit_response whose recomputation fails (an answer vector shorter
\* than a tracker's question_index, or an empty ranking) answers Error and
\* leaves the poll and the file as they were before the call.
C18_FailedRecomputationLeavesPollUnchanged ==
    \A p \in Handlers :
        (Returning(p, "submit") /\ req[p].key \in DOMAIN snap[p].db
         /\ ProgressesPanic(
               [snap[p].db[req[p].key] EXCEPT !.responses =
                   Insert(@, req[p].user, req[p].responses)])) =>
            /\ ret[p] = Error
            /\ db[req[p].key] = snap[p].db[req[p].key]
            /\ disk = snap[p].disk

\* C19: a submit_response whose snapshot write failed either answers Error
\* with the store as before the call, or answers Success with the store
\* updated; in both cases the store stays usable.
C19_WriteFailureIsAnswered ==
    \A p \in Handlers :
        (Returning(p, "submit") /\ req[p].key \in DOMAIN snap[p].db
         /\ db # snap[p].db
         /\ CanRecompute(db[req[p].key]) /\ Recomputed(db[req[p].key])
         /\ req[p].user \in DOMAIN db[req[p].key].responses
         /\ db[req[p].key].responses[req[p].user] = req[p].responses
         /\ disk # write(db)) =>
            /\ ~poisoned
            /\ \/ ret[p] = Error /\ db = snap[p].db
               \/ ret[p] = Success

\* C20: the Poll stored under a key stays the Poll it was created with (or
\* loaded with at startup) for the rest of the process lifetime; no operation
\* closes it.
C20_PollDefinitionNeverChanges ==
    up =>
        \A k \in DOMAIN db :
            /\ k \in DOMAIN created
            /\ db[k].poll = created[k]
            /\ created[k].status # "Closed" => db[k].poll.status # "Closed"

\* C20 witness: a submission met a result of a poll seeking responses, and
\* the poll still seeks responses.
C20_Witness ==
    \E p \in Handlers :
        /\ Returning(p, "submit") /\ ret[p] = Success
        /\ \E i \in 1..Len(db[req[p].key].result_states) :
              /\ db[req[p].key].result_states[i].overall_met
              /\ ~snap[p].db[req[p].key].result_states[i].overall_met
        /\ db[req[p].key].poll.status = "SeekingResponses"
        /\ db[req[p].key].poll = created[req[p].key]

\* The poll of a submit as it was at lock(), with the submitted answer in.
WithSubmission(p) ==
    [snap[p].db[req[p].key] EXCEPT !.responses =
        Insert(@, req[p].user, req[p].responses)]

\* pd with its poll seeking responses.
Reopened(pd) == [pd EXCEPT !.poll.status = "SeekingResponses"]

\* C21: a submission to a Closed poll is not turned down for the status (an
\* Error there is the poisoned Mutex), and a successful one leaves the
\* responses, progresses and result_states that the same submission leaves
\* on the same poll seeking responses.
C21_ClosedPollAcceptsSubmissions ==
    \A p \in Handlers :
        (Returning(p, "submit") /\ req[p].key \in DOMAIN snap[p].db
         /\ snap[p].db[req[p].key].poll.status = "Closed") =>
            /\ ret[p] = Error => poisoned /\ db = snap[p].db
            /\ ret[p] = Success =>
                  LET open == update_results(Reopened(WithSubmission(p))).data
                  IN /\ db[req[p].key].responses = open.responses
                     /\ db[req[p].key].progresses = open.progresses
                     /\ db[req[p].key].result_states = open.result_states
                     /\ db[req[p].key].responses[req[p].user] = req[p].responses

\* C21 witness: a submission to the closed poll changed its counts.
C21_Witness ==
    \E p \in Handlers :
        /\ Returning(p, "submit") /\ ret[p] = Success
        /\ snap[p].db[req[p].key].poll.status = "Closed"
        /\ req[p].user \notin DOMAIN snap[p].db[req[p].key].responses
        /\ db[req[p].key].progresses # snap[p].db[req[p].key].progresses

FreshlyStarted ==
    /\ \A k \in DOMAIN db : CanRecompute(db[k]) /\ Recomputed(db[k])
    /\ disk = write(db)
    /\ get_from_file(disk) = Some(db)

\* C23: when Db::new completes, from a data file (stale derived state
\* included) or from the seed, every poll's progresses and result_states are
\* the recomputation from its responses and the file equals the store.
C23_StartupRecomputes ==
    /\ up => FreshlyStarted
    /\ [][(~up /\ up') => FreshlyStarted']_vars

\* C23 witness: the server came up from the edited file, whose poll had one
\* answer and no derived state; the count is 1 and the file was rewritten.
C23_Witness ==
    /\ up
    /\ 1 \in DOMAIN db
    /\ db[1].poll = PollA
    /\ db[1].responses = ("alice" :> <<ChooseOneOrNone(Some(Index(0)))>>)
    /\ db[1].progresses = <<Count(1)>>
    /\ db[1].result_states = <<ResultState(<<FALSE>>, FALSE)>>
    /\ disk = write(db)
    /\ disk # EditedFile(1)

\* C24: a server that is down over an unparseable data file starts: Db::new
\* completes with the seeded store of the one example poll.
C24_UnparseableFileIsSeeded ==
    (~up /\ disk.state = "corrupt") =>
        /\ ~new_panics(disk)
        /\ new(disk) = new(NoFile)

\* C25: every stored poll has one progress per metric tracker, one result
\* state per result, and in each result state one requirements_met entry per
\* requirement of that result.
C25_DerivedStateHasTheShapeOfThePoll ==
    up =>
        \A k \in DOMAIN db :
            /\ Len(db[k].progresses) = Len(db[k].poll.metric_trackers)
            /\ Len(db[k].result_states) = Len(db[k].poll.results)
            /\ \A i \in 1..Len(db[k].poll.results) :
                  Len(db[k].result_states[i].requirements_met) =
                      Len(db[k].poll.results[i].requirements)

\* C25 witness: a created poll of two trackers and two results of unequal
\* requirement counts, after a submission recomputed it.
C25_Witness ==
    \E p \in Handlers :
        /\ Returning(p, "submit") /\ ret[p] = Success
        /\ db[req[p].key].poll = PollB
        /\ Len(db[req[p].key].progresses) = 2
        /\ Len(db[req[p].key].result_states[1].requirements_met) = 1
        /\ Len(db[req[p].key].result_states[2].requirements_met) = 0
        /\ db[req[p].key].progresses # snap[p].db[req[p].key].progresses

\* C26: every answer vector stored in a poll's responses has one entry per
\* question of the poll (looked at while no handler is inside the store).
C26_StoredAnswersMatchQuestionCount ==
    (up /\ lock = 0) =>
        \A k \in DOMAIN db :
            \A u \in DOMAIN db[k].responses :
                Len(db[k].responses[u]) = Len(db[k].poll.questions)

C28_PoisonedLockFailsCleanly ==
    \A p \in Handlers :
        (pc[p] = "ret" /\ snap[p].poisoned) =>
            /\ ret[p] \in {Error, NotFound}
            /\ db = snap[p].db
            /\ disk = snap[p].disk

\* C29: while the process runs, no step removes a key from the store or a
\* user from a poll's responses.
C29_KeysAndUsersAreNeverRemoved ==
    [][(up /\ up') =>
          /\ DOMAIN db \subseteq DOMAIN db'
          /\ \A k \in DOMAIN db :
                DOMAIN db[k].responses \subseteq DOMAIN db'[k].responses]_vars

\* C29 witness: a submission replaced the answer a user had while another
\* user's answer and another poll stayed in the store.
C29_Witness ==
    \E p \in Handlers :
        /\ Returning(p, "submit") /\ ret[p] = Success
        /\ Cardinality(DOMAIN db) = 2
        /\ DOMAIN snap[p].db[req[p].key].responses = Users
        /\ DOMAIN db[req[p].key].responses = Users
        /\ snap[p].db[req[p].key].responses[req[p].user] # req[p].responses
        /\ db[req[p].key].responses[req[p].user] = req[p].responses

\* C30: get_poll and get_progress leave the store and the file as they found
\* them, and get_progress answers with the stored derived state: the stored
\* result_states, and the stored progress of every visible tracker.
C30_ReadsAreReadOnly ==
    \A p \in Handlers :
        (Returning(p, "get_poll") \/ Returning(p, "get_progress")) =>
            /\ db = snap[p].db
            /\ disk = snap[p].disk
            /\ (req[p].op = "get_progress" /\ ret[p].tag = "Success") =>
                  LET stored == snap[p].db[req[p].key] IN
                  /\ ret[p].progress.result_states = stored.result_states
                  /\ \A i \in 1..Len(stored.progresses) :
                        stored.poll.metric_trackers[i].publicly_visible =>
                            ret[p].progress.metric_progresses[i] =
                                Some(stored.progresses[i])

\* C30 witness: get_progress on a poll whose stored derived state is not what
\* a recomputation would give answers with the stored state.
C30_Witness ==
    \E p \in Handlers :
        /\ Returning(p, "get_progress") /\ ret[p].tag = "Success"
        /\ CanRecompute(db[req[p].key])
        /\ ~Recomputed(db[req[p].key])
        /\ ret[p].progress.result_states = db[req[p].key].result_states
        /\ \E i \in 1..Len(db[req[p].key].poll.metric_trackers) :
              db[req[p].key].poll.metric_trackers[i].publicly_visible

\* The answer the specification gives a question at the start: by the form,
\* and for RankedChoice the identity ranking Index(0) .. Index(n-1).
InitialAnswer(form) ==
    CASE form.kind \in {"OneOrNone", "YesNoNone"} -> ChooseOneOrNone(None)
      [] form.kind = "One" -> ChooseOne(Index(0))
      [] form.kind = "YesNo" -> ChooseOne(YesOrNo(FALSE))
      [] form.kind = "Multiple" -> ChooseMultiple(<< >>)
      [] form.kind = "RankedChoice" ->
            RankedChoice([i \in 1..form.options |-> Index(i - 1)])

\* C31: init_responses returns one answer per question, in question order,
\* of the variant of the question's form; for RankedChoice with n options the
\* identity ranking, for every n.
C31_InitResponsesMatchForms ==
    call.fn = "init_responses" =>
        /\ Len(call.result) = Len(call.poll.questions)
        /\ \A q \in 1..Len(call.poll.questions) :
              call.result[q] = InitialAnswer(call.poll.questions[q].form)

\* C32: every create_poll takes a key the store does not hold and keeps
\* every entry the store holds, so two creations handled concurrently get
\* different keys and the store holds both polls.
C32_ConcurrentCreatesGetDistinctKeys ==
    \A p \in Handlers :
        (Returning(p, "new_poll") /\ ret[p].tag = "Success") =>
            /\ ret[p].key \notin DOMAIN snap[p].db
            /\ \A k \in DOMAIN snap[p].db :
                  /\ k \in DOMAIN db
                  /\ k # ret[p].key
                  /\ db[k].poll = snap[p].db[k].poll
            /\ db[ret[p].key].poll = req[p].poll
            /\ \A k \in DOMAIN db : db[k].poll = created[k]

\* C32 witness: the second of two creations returns; the store holds the
\* poll of the first under key 1 and its own under key 2.
C32_Witness ==
    \E p \in Handlers :
        /\ Returning(p, "new_poll") /\ ret[p] = SuccessKey(2)
        /\ DOMAIN snap[p].db = {1}
        /\ DOMAIN db = {1, 2}
        /\ db[1].poll = created[1] /\ created[1] \in PollInputs
        /\ db[2].poll = req[p].poll
        /\ db[1].poll # db[2].poll

\* C33: a successful submission to a poll that holds another user's answer
\* keeps that answer, stores its own, leaves the derived state computed over
\* both, and the file it wrote holds both.
C33_ConcurrentSubmissionsAreBothKept ==
    \A p \in Handlers :
        (Returning(p, "submit") /\ ret[p] = Success
         /\ DOMAIN snap[p].db[req[p].key].responses \ {req[p].user} # {}) =>
            LET before == snap[p].db[req[p].key]
                after == db[req[p].key]
                both == update_results(WithSubmission(p)).data
            IN /\ DOMAIN after.responses =
                      DOMAIN before.responses \cup {req[p].user}
               /\ \A o \in DOMAIN before.responses \ {req[p].user} :
                      after.responses[o] = before.responses[o]
               /\ after.responses[req[p].user] = req[p].responses
               /\ after.progresses = both.progresses
               /\ after.result_states = both.result_states
               /\ get_from_file(disk) = Some(db)

\* C33 witness: bob's submission returns after alice's; the seeded poll counts
\* both and its result is met.
C33_Witness ==
    \E p \in Handlers :
        /\ Returning(p, "submit") /\ ret[p] = Success
        /\ req[p].key = 0 /\ req[p].user = "bob"
        /\ db[0].poll = DefaultPoll
        /\ snap[p].db[0].responses = ("alice" :> <<ChooseOne(Index(0))>>)
        /\ db[0].responses = ("alice" :> <<ChooseOne(Index(0))>>
                              @@ "bob" :> <<ChooseOne(Index(0))>>)
        /\ db[0].progresses = <<Count(2)>>
        /\ db[0].result_states = <<ResultState(<<TRUE>>, TRUE)>>
        /\ disk = write(db)

\* C34: submit_response for key k changes nothing but the submitting user's
\* entry, the progresses and the result_states of poll k; create_poll adds one
\* entry; both leave every other entry of the store as it was.
C34_MutationsStayInTheirFrame ==
    \A p \in Handlers :
        /\ Returning(p, "submit") =>
              /\ DOMAIN db = DOMAIN snap[p].db
              /\ \A k \in DOMAIN db \ {req[p].key} : db[k] = snap[p].db[k]
              /\ req[p].key \in DOMAIN db =>
                    LET before == snap[p].db[req[p].key]
                        after == db[req[p].key]
                    IN /\ after.poll = before.poll
                       /\ DOMAIN after.responses \subseteq
                              DOMAIN before.responses \cup {req[p].user}
                       /\ \A o \in DOMAIN before.responses \ {req[p].user} :
                              /\ o \in DOMAIN after.responses
                              /\ after.responses[o] = before.responses[o]
        /\ Returning(p, "new_poll") =>
              /\ \A k \in DOMAIN snap[p].db :
                    k \in DOMAIN db /\ db[k] = snap[p].db[k]
              /\ DOMAIN db \subseteq
                    DOMAIN snap[p].db \cup
                        (IF ret[p].tag = "Success" THEN {ret[p].key} ELSE {})

\* C34 witness: a submission changed the counts of its poll while a created
\* poll under another key, whose derived state a recomputation would change,
\* stayed as it was.
C34_Witness ==
    \E p \in Handlers :
        /\ Returning(p, "submit") /\ ret[p] = Success
        /\ db[req[p].key].progresses # snap[p].db[req[p].key].progresses
        /\ \E k \in DOMAIN db \ {req[p].key} :
              /\ CanRecompute(db[k])
              /\ ~Recomputed(db[k])
              /\ db[k] = snap[p].db[k]

\* C35: a request that failed earlier does not change what later requests
\* get: get_poll answers Found or NotFound, create_poll answers Success, and
\* get_progress and submit_response on a key the store holds do not answer
\* Error.
C35_FailuresDoNotAffectLaterRequests ==
    \A p \in Handlers :
        /\ Returning(p, "get_poll") => ret[p].tag \in {"Found", "NotFound"}
        /\ Returning(p, "new_poll") => ret[p].tag = "Success"
        /\ (Returning(p, "get_progress") /\ req[p].key \in DOMAIN db) =>
              ret[p].tag = "Success"
        /\ (Returning(p, "submit") /\ req[p].key \in DOMAIN db) =>
              ret[p] # Error

\* C36: SubmitConfirmation is entered only from Submitting and only with the
\* answer Success; the answer Error leaves the state Submitting, then and
\* afterwards; the frame in which either answer arrives sets stale.
C36_ConfirmationOnlyAfterSuccess ==
    [][/\ (client'.participation = "SubmitConfirmation"
           /\ client.participation # "SubmitConfirmation") =>
              /\ client.participation = "Submitting"
              /\ client'.submit_answer = Some("Success")
       /\ (client.participation = "Submitting"
           /\ client.submit_answer = None /\ client'.submit_answer # None) =>
              /\ client'.stale
              /\ client'.submit_answer = Some("Error") =>
                    client'.participation = "Submitting"
       /\ (client.participation = "Submitting"
           /\ client.submit_answer = Some("Error")) =>
              client'.participation = "Submitting"]_vars

\* C36 witness: the submission was answered Error after a progress had been
\* fetched; the state is Submitting and stale is set.
C36_Witness ==
    /\ client.participation = "Submitting"
    /\ client.submit_answer = Some("Error")
    /\ client.stale
    /\ client.poll_progress # None

\* C37: in the SignedIn state every (form, response) pair of the answers that
\* init_responses gave, or that clicks made of them, is one a handled arm
\* matches.
C37_EveryFormHasAnArm ==
    (client.participation = "SignedIn" /\ client.question_responses # << >>) =>
        \A q \in 1..Len(client.poll.questions) :
            ArmHandled(client.poll.questions[q].form,
                       client.question_responses[q])

\* C38: at most one progress request is in flight and none without a
\* Submitter; an answer clears the Submitter at once; only Success resets
\* stale and replaces poll_progress, and Error changes neither.
C38_OneProgressRequestInFlight ==
    /\ [](/\ client.in_flight <= 1
          /\ client.fetch = "absent" => client.in_flight = 0
          /\ client.fetch_answer # None => client.fetch = "absent")
    /\ [][/\ (client.stale /\ ~client'.stale) =>
                /\ client'.fetch_answer # None
                /\ client'.fetch_answer[1].tag = "Success"
          /\ client'.poll_progress # client.poll_progress =>
                /\ client'.fetch_answer # None
                /\ client'.fetch_answer[1].tag = "Success"
                /\ client'.poll_progress = Some(client'.fetch_answer[1].progress)
                /\ ~client'.stale
          /\ (client.fetch # "absent" /\ client'.fetch = "absent") =>
                client'.fetch_answer # None
          /\ (client.fetch = "absent" /\ client'.fetch # "absent") =>
                client.in_flight = 0]_vars

\* C38 witness: a submission made the progress stale and a later fetch was
\* answered Success: the progress is the fetched one, stale is reset, no
\* Submitter and no request are left.
C38_Witness ==
    /\ client.participation = "SubmitConfirmation"
    /\ client.fetch_answer = Some([tag |-> "Success", progress |-> "second"])
    /\ client.poll_progress = Some("second")
    /\ ~client.stale
    /\ client.fetch = "absent"
    /\ client.in_flight = 0

====
